---- MODULE Spec2Model ----
(***************************************************************************)
(* A model of claude_usage_widget.py: the two persisted JSON records, the  *)
(* weekly reset policy, the usage mutations and the Tk event loop that     *)
(* drives them.                                                            *)
(*                                                                         *)
(* Python values are tagged records, so that a value of the wrong type can *)
(* be told from a value of the right one:                                  *)
(*   None            [t |-> "null"]                                        *)
(*   an int          [t |-> "int", v |-> n]                                *)
(*   a float         [t |-> "real", hundredths |-> n]                      *)
(*   a str           [t |-> "str", s |-> text]        (not a timestamp)    *)
(*   a str holding an ISO-8601 timestamp                                   *)
(*                   [t |-> "iso", day |-> d, tod |-> s, tz |-> aware]     *)
(*   a list          [t |-> "list"]                                        *)
(* A dict is a function from its keys to values.  A datetime is            *)
(* [day |-> d, tod |-> s]: d counts days from day 0, s counts the instants *)
(* of the day, 0 being midnight.                                           *)
(***************************************************************************)
EXTENDS Integers, FiniteSets, Sequences, TLC

VARIABLES
    pc,          \* where the process is: "off", the steps of __init__, "run", "mainloop"
    now,         \* the wall clock, datetime.now()
    configFile,  \* the content of CONFIG_FILE
    stateFile,   \* the content of STATE_FILE
    config,      \* self.config
    state,       \* self.state; once the process has ended, the record it last held
    timerArmed,  \* root.after(5000, self._tick) is pending
    err,         \* the exception the last operation raised, or "none"
    lastOp,      \* the last operation of the program that ran
    branch,      \* the branch the reset policy took in it, or "none"
    pct_lbl,     \* what self.pct_lbl shows: its text and its color; Null while no window exists
    window,      \* the window: its -alpha, its position, self._drag; Null while none exists
    call         \* specification FnSpec: a function application, its inputs and its result

vars ==
    <<pc, now, configFile, stateFile, config, state, timerArmed, err, lastOp, branch, pct_lbl,
      window, call>>

----------------------------------------------------------------------------
(* Bounds of the model *)

\* the clock runs over days 0..MaxDay
MaxDay == 2
\* the instants of a day are 0..MaxTod, 0 being midnight
MaxTod == 1
\* current_week_start is applied to every time of days 0..MaxFnDay
MaxFnDay == 13
\* adjust is applied to every delta in -MaxDelta..MaxDelta
MaxDelta == 26
\* set_usage is applied to every pct in -PctBelow..PctAbove
PctBelow == 50
PctAbove == 150
\* the window is dragged at most MaxShift pointer offsets away from where
\* _setup_window first puts it
MaxShift == 1

----------------------------------------------------------------------------
(* Python values *)

Null == [t |-> "null"]
JInt(n) == [t |-> "int", v |-> n]
JReal(h) == [t |-> "real", hundredths |-> h]
JStr(s) == [t |-> "str", s |-> s]
JIso(d, s, aware) == [t |-> "iso", day |-> d, tod |-> s, tz |-> aware]
JList == [t |-> "list"]
JObject(m) == [t |-> "object", m |-> m]

\* bool(x): None, 0, 0.0, "" and [] are false
Truthy(x) ==
    CASE x.t = "null" -> FALSE
      [] x.t = "int" -> x.v # 0
      [] x.t = "real" -> x.hundredths # 0
      [] x.t = "str" -> x.s # ""
      [] x.t = "iso" -> TRUE
      [] x.t = "list" -> FALSE
      [] OTHER -> TRUE

IsNumber(x) == x.t = "int"

\* dict.get(key): None for a missing key
Get(d, k) == IF k \in DOMAIN d THEN d[k] ELSE Null

\* d[key] = value on a dict: the key is added when missing
Put(d, k, x) == [j \in DOMAIN d \cup {k} |-> IF j = k THEN x ELSE d[j]]

----------------------------------------------------------------------------
(* datetime *)

DT(d, s) == [day |-> d, tod |-> s]

Times == {DT(d, s) : d \in 0..MaxDay, s \in 0..MaxTod}

\* a > b on naive datetimes
Later(a, b) == a.day > b.day \/ (a.day = b.day /\ a.tod > b.tod)

\* datetime.weekday(): Monday is 0; day 0 is a Saturday
Weekday(dt) == (dt.day + 5) % 7

\* datetime.isoformat() of a naive datetime
IsoFormat(dt) == JIso(dt.day, dt.tod, FALSE)

\* datetime.fromisoformat(x): TypeError unless x is a str, ValueError unless
\* the str is an ISO-8601 timestamp; the str may carry a UTC offset
FromIsoFormat(x) ==
    CASE x.t = "iso" -> [err |-> "none", aware |-> x.tz, dt |-> DT(x.day, x.tod)]
      [] x.t = "str" -> [err |-> "ValueError"]
      [] OTHER -> [err |-> "TypeError"]

----------------------------------------------------------------------------
(* Defaults *)

DEFAULT_CONFIG ==
    [reset_day |-> JStr("Monday"), opacity |-> JReal(85), width |-> JInt(230),
     height |-> JInt(52), position_x |-> Null, position_y |-> Null]

DEFAULT_STATE ==
    [usage_percent |-> JInt(0), week_start |-> Null, last_updated |-> Null]

DAYS == <<"Monday", "Tuesday", "Wednesday", "Thursday", "Friday", "Saturday", "Sunday">>

----------------------------------------------------------------------------
(* Persistence helpers *)

AbsentFile == [kind |-> "absent"]
\* the path exists and open() raises OSError (a directory, no permission)
UnreadableFile == [kind |-> "unreadable"]
\* text that json.load rejects with JSONDecodeError
MalformedFile == [kind |-> "malformed"]
\* text that is a JSON document
JsonFile(doc) == [kind |-> "json", doc |-> doc]

\* {**defaults, **data}
MergeWrongWay(defaults, data) ==
    [k \in DOMAIN defaults \cup DOMAIN data |->
        IF k \in DOMAIN defaults THEN defaults[k] ELSE data[k]]

Merge(defaults, data) ==
    [k \in DOMAIN defaults \cup DOMAIN data |->
        IF k \in DOMAIN data THEN data[k] ELSE defaults[k]]

\* _load_json(path, defaults): the record it returns, or the exception that
\* leaves it.  JSONDecodeError and OSError are caught; {**defaults, **data}
\* raises TypeError when data is not a mapping, and that is not caught.
LoadJson(file, defaults) ==
    CASE file.kind = "absent" -> [err |-> "none", rec |-> defaults]
      [] file.kind = "unreadable" -> [err |-> "none", rec |-> defaults]
      [] file.kind = "malformed" -> [err |-> "none", rec |-> defaults]
      [] file.kind = "json" ->
            IF file.doc.t = "object"
            THEN [err |-> "none", rec |-> Merge(defaults, file.doc.m)]
            ELSE [err |-> "TypeError", rec |-> defaults]

\* the mutant leaves usage_percent out of what it writes
SaveJsonPartial(data) ==
    JsonFile(JObject([k \in DOMAIN data \ {"usage_percent"} |-> data[k]]))

\* _save_json(path, data): the file is rewritten in full
SaveJson(data) == JsonFile(JObject(data))

----------------------------------------------------------------------------
(* Color gradient *)

\* int(a / b) of a non-negative quotient, and the integer part of x - a / b
Floor(a, b) == a \div b
Ceil(a, b) == 0 - ((0 - a) \div b)

Min(a, b) == IF a < b THEN a ELSE b
Max(a, b) == IF a > b THEN a ELSE b

\* the last line of lerp_color: each channel is cut to 0..255
Channels(r, g, b) == <<Max(0, Min(255, r)), Max(0, Min(255, g)), Max(0, Min(255, b))>>

\* the formula of the branch pct < 50, at any pct
SegmentGreenYellow(pct) == Channels(40 + Floor(pct * 215, 50), 200, 80)

\* the formula of the branch pct < 80, at any pct from 50 on
SegmentYellowOrange(pct) ==
    Channels(255, 200 - Ceil((pct - 50) * 130, 30), 80 - Ceil((pct - 50) * 50, 30))

\* lerp_color without its first line, the formulas applied to pct as it comes
lerp_colorUnclamped(pct) ==
    IF pct < 50 THEN SegmentGreenYellow(pct)
    ELSE IF pct < 80 THEN SegmentYellowOrange(pct)
    ELSE Channels(255, 70 - Ceil((pct - 80) * 50, 20), 30 + Floor((pct - 80) * 30, 20))

\* lerp_color(pct) for an int pct, as <<r, g, b>>: int() cuts the fraction of a
\* positive float, so int(200 - ratio * 130) is 200 - ceil((pct - 50) * 130 / 30)
lerp_color(n) ==
    LET pct == Max(0, Min(100, n))
        r == IF pct < 50 THEN 40 + Floor(pct * 215, 50) ELSE 255
        g == IF pct < 50 THEN 200
             ELSE IF pct < 80 THEN 200 - Ceil((pct - 50) * 130, 30)
             ELSE 70 - Ceil((pct - 80) * 50, 20)
        b == IF pct < 50 THEN 80
             ELSE IF pct < 80 THEN 80 - Ceil((pct - 50) * 50, 30)
             ELSE 30 + Floor((pct - 80) * 30, 20)
    IN  <<Max(0, Min(255, r)), Max(0, Min(255, g)), Max(0, Min(255, b))>>

\* the label _build_ui creates: text "0%", fg "white"
InitialLabel == [text |-> JInt(0), fg |-> <<255, 255, 255>>]

\* _render_bar: min(100, pct) raises TypeError when usage_percent is no number
RenderBar(st, lbl) ==
    IF IsNumber(st["usage_percent"])
    THEN [err |-> "none",
          lbl |-> [text |-> st["usage_percent"], fg |-> lerp_color(st["usage_percent"].v)]]
    ELSE [err |-> "TypeError", lbl |-> lbl]

----------------------------------------------------------------------------
(* Weekly reset *)

\* _save_state: stamps last_updated and rewrites the state file
SaveState(st, t) ==
    LET saved == Put(st, "last_updated", IsoFormat(t))
    IN  [err |-> "none", st |-> saved, file |-> SaveJson(saved)]

InDays(x) == x.t = "str" /\ \E i \in 1..Len(DAYS) : DAYS[i] = x.s

\* DAYS.index(x), for x in DAYS
DaysIndex(x) == (CHOOSE i \in 1..Len(DAYS) : DAYS[i] = x.s) - 1

\* the mutant drops the wrap-around of days_since
CurrentWeekStartNoWrap(cfg, t) ==
    IF ~InDays(cfg["reset_day"])
    THEN [err |-> "ValueError"]
    ELSE LET reset_idx == DaysIndex(cfg["reset_day"])
             days_since == IF Weekday(t) >= reset_idx THEN Weekday(t) - reset_idx
                           ELSE reset_idx - Weekday(t)
         IN  [err |-> "none", dt |-> DT(t.day - days_since, 0)]

\* the mutant takes a reset_day that is not in DAYS for the first of them
CurrentWeekStartFallback(cfg, t) ==
    LET reset_idx == IF InDays(cfg["reset_day"]) THEN DaysIndex(cfg["reset_day"]) ELSE 0
        days_since == (Weekday(t) - reset_idx) % 7
    IN  [err |-> "none", dt |-> DT(t.day - days_since, 0)]

\* _current_week_start at time t: DAYS.index raises ValueError for a reset_day
\* that is not in DAYS
CurrentWeekStart(cfg, t) ==
    IF ~InDays(cfg["reset_day"])
    THEN [err |-> "ValueError"]
    ELSE LET reset_idx == DaysIndex(cfg["reset_day"])
             days_since == (Weekday(t) - reset_idx) % 7
         IN  [err |-> "none", dt |-> DT(t.day - days_since, 0)]

\* the mutant forgets to initialize a missing week_start
EnsureWeekStartSkipped(st, cfg, t, file) ==
    [err |-> "none", st |-> st, file |-> file, branch |-> "present"]

\* _ensure_week_start
EnsureWeekStart(st, cfg, t, file) ==
    IF Truthy(Get(st, "week_start"))
    THEN [err |-> "none", st |-> st, file |-> file, branch |-> "present"]
    ELSE LET ws == CurrentWeekStart(cfg, t)
             saved == SaveState(Put(st, "week_start", IsoFormat(ws.dt)), t)
         IN  IF ws.err # "none"
             THEN [err |-> ws.err, st |-> st, file |-> file, branch |-> "raised"]
             ELSE [err |-> "none", st |-> saved.st, file |-> saved.file,
                   branch |-> "initialized"]

\* what _check_weekly_reset leaves when it changes nothing
Untouched(e, st, file, b) == [err |-> e, st |-> st, file |-> file, branch |-> b]

\* line 164-165: the stored week-start is replaced and the record saved
Repaired(st, ws, t) ==
    LET saved == SaveState(Put(st, "week_start", IsoFormat(ws)), t)
    IN  [err |-> "none", st |-> saved.st, file |-> saved.file, branch |-> "repaired"]

\* the mutant zeroes the usage but keeps the stored week-start
ZeroedKeepsWeek(st, ws, t) ==
    LET saved == SaveState(Put(st, "usage_percent", JInt(0)), t)
    IN  [err |-> "none", st |-> saved.st, file |-> saved.file, branch |-> "reset"]

\* line 160-162: the usage is zeroed, the week-start replaced, the record saved
Zeroed(st, ws, t) ==
    LET saved == SaveState(Put(Put(st, "usage_percent", JInt(0)),
                               "week_start", IsoFormat(ws)), t)
    IN  [err |-> "none", st |-> saved.st, file |-> saved.file, branch |-> "reset"]

\* the mutant resets on current_ws >= last_ws
ResetIsDueOnOrAfter(current_ws, last_ws) == ~Later(last_ws, current_ws)

\* the mutant resets whenever the two differ
ResetIsDueWhenDifferent(current_ws, last_ws) == current_ws # last_ws

\* line 159: current_ws > last_ws
ResetIsDue(current_ws, last_ws) == Later(current_ws, last_ws)

\* _check_weekly_reset.  Only ValueError is caught: fromisoformat of a value
\* that is no str, and the comparison of the naive current_ws with an aware
\* last_ws, raise TypeError, which leaves the method.
CheckWeeklyReset(st, cfg, t, file) ==
    LET ws == CurrentWeekStart(cfg, t)
        stored == Get(st, "week_start")
        last_ws == FromIsoFormat(stored)
    IN  IF ws.err # "none" THEN Untouched(ws.err, st, file, "raised")
        ELSE IF ~Truthy(stored) THEN Untouched("none", st, file, "absent")
        ELSE IF last_ws.err = "TypeError" THEN Untouched("TypeError", st, file, "raised")
        ELSE IF last_ws.err = "ValueError" THEN Repaired(st, ws.dt, t)
        ELSE IF last_ws.aware THEN Untouched("TypeError", st, file, "raised")
        ELSE IF ResetIsDue(ws.dt, last_ws.dt) THEN Zeroed(st, ws.dt, t)
        ELSE Untouched("none", st, file, "kept")

----------------------------------------------------------------------------
(* Usage manipulation *)

\* the mutant clamps at the top only
SetUsageNoFloor(st, pct, t, lbl) ==
    LET saved == SaveState(Put(st, "usage_percent", JInt(Min(100, pct))), t)
        drawn == RenderBar(saved.st, lbl)
    IN  [err |-> drawn.err, st |-> saved.st, file |-> saved.file, lbl |-> drawn.lbl]

\* _set_usage(pct) for an int pct: clamp, store, save, render
SetUsage(st, pct, t, lbl) ==
    LET saved == SaveState(Put(st, "usage_percent", JInt(Max(0, Min(100, pct)))), t)
        drawn == RenderBar(saved.st, lbl)
    IN  [err |-> drawn.err, st |-> saved.st, file |-> saved.file, lbl |-> drawn.lbl]

\* _adjust(delta): usage_percent + delta raises TypeError when usage_percent
\* is no number, before anything is stored
Adjust(st, delta, t, file, lbl) ==
    IF IsNumber(st["usage_percent"])
    THEN SetUsage(st, st["usage_percent"].v + delta, t, lbl)
    ELSE [err |-> "TypeError", st |-> st, file |-> file, lbl |-> lbl]

----------------------------------------------------------------------------
(* The widget: initial files *)

\* the state files a launch may find: missing, unreadable, not JSON, JSON that
\* is no object, and objects with or without each key, holding usable and
\* unusable values
InitUsages == {JInt(50), JInt(150), JInt(0 - 5), JStr("abc")}

InitWeekStarts ==
    {Null, JStr(""), JStr("junk"), JInt(12345), JIso(0 - 5, 0, TRUE),
     JIso(0 - 12, 0, FALSE), JIso(0 - 6, 0, FALSE), JIso(0 - 5, 0, FALSE),
     JIso(1, 1, FALSE)}

InitStateObjects ==
    {<<>>}
    \cup {[usage_percent |-> u] : u \in InitUsages}
    \cup {[week_start |-> w] : w \in InitWeekStarts}
    \cup {[usage_percent |-> u, week_start |-> w] : u \in InitUsages, w \in InitWeekStarts}

InitStateFiles ==
    {AbsentFile, UnreadableFile, MalformedFile, JsonFile(JList), JsonFile(Null)}
    \cup {JsonFile(JObject(m)) : m \in InitStateObjects}

InitConfigFiles ==
    {AbsentFile, JsonFile(JInt(7)),
     JsonFile(JObject([reset_day |-> JStr("Sunday")])),
     JsonFile(JObject([reset_day |-> JStr("Funday")]))}

NoCall == [fn |-> "none"]

\* before the first launch: the files are whatever the user's directory
\* holds, and no process runs
Init ==
    /\ pc = "off"
    /\ now = DT(0, 0)
    /\ configFile \in InitConfigFiles
    /\ stateFile \in InitStateFiles
    /\ config = DEFAULT_CONFIG
    /\ state = DEFAULT_STATE
    /\ timerArmed = FALSE
    /\ err = "none"
    /\ lastOp = "none"
    /\ branch = "none"
    /\ pct_lbl = Null
    /\ window = Null
    /\ call = NoCall

----------------------------------------------------------------------------
(* The widget: __init__ and run *)

\* an uncaught exception ends the process: the window and its timer are gone
Crash(e, op) ==
    /\ pc' = "off"
    /\ err' = e
    /\ lastOp' = op
    /\ timerArmed' = FALSE
    /\ pct_lbl' = Null
    /\ window' = Null

\* __init__, lines 108-109: load both records
LoadRecords ==
    /\ pc = "off"
    /\ LET c == LoadJson(configFile, DEFAULT_CONFIG)
           s == LoadJson(stateFile, DEFAULT_STATE)
       IN  IF c.err # "none"
           THEN Crash(c.err, "_load_json") /\ UNCHANGED <<config, state>>
           ELSE IF s.err # "none"
           THEN Crash(s.err, "_load_json") /\ config' = c.rec /\ UNCHANGED state
           ELSE /\ config' = c.rec
                /\ state' = s.rec
                /\ pc' = "init_ensure"
                /\ err' = "none"
                /\ lastOp' = "_load_json"
                /\ timerArmed' = FALSE
                /\ pct_lbl' = Null
                /\ window' = Null
    /\ branch' = "none"
    /\ UNCHANGED <<now, configFile, stateFile, call>>

\* __init__, line 111
EnsureStep ==
    /\ pc = "init_ensure"
    /\ LET r == EnsureWeekStart(state, config, now, stateFile)
       IN  /\ state' = r.st
           /\ stateFile' = r.file
           /\ branch' = r.branch
           /\ IF r.err # "none"
              THEN Crash(r.err, "_ensure_week_start")
              ELSE /\ pc' = "init_check"
                   /\ err' = "none"
                   /\ lastOp' = "_ensure_week_start"
                   /\ UNCHANGED <<timerArmed, pct_lbl, window>>
    /\ UNCHANGED <<now, configFile, config, call>>

\* __init__, line 112
CheckStep ==
    /\ pc = "init_check"
    /\ LET r == CheckWeeklyReset(state, config, now, stateFile)
       IN  /\ state' = r.st
           /\ stateFile' = r.file
           /\ branch' = r.branch
           /\ IF r.err # "none"
              THEN Crash(r.err, "_check_weekly_reset")
              ELSE /\ pc' = "init_ui"
                   /\ err' = "none"
                   /\ lastOp' = "_check_weekly_reset"
                   /\ UNCHANGED <<timerArmed, pct_lbl, window>>
    /\ UNCHANGED <<now, configFile, config, call>>

\* winfo_screenwidth() of the display
ScreenWidth == 1920

\* _setup_window: -alpha is the configured opacity, the window goes where the
\* config says or to the top right corner of the screen, and self._drag is
\* {"x": 0, "y": 0}
SetupWindow(cfg) ==
    LET placed == cfg["position_x"] # Null
    IN  [alpha |-> cfg["opacity"],
         x |-> IF placed THEN cfg["position_x"].v ELSE ScreenWidth - cfg["width"].v - 20,
         y |-> IF placed THEN cfg["position_y"].v ELSE 20,
         drag |-> [x |-> 0, y |-> 0]]

\* __init__, lines 113-115: the window, its labels and its bindings
SetupUI ==
    /\ pc = "init_ui"
    /\ pc' = "run"
    /\ pct_lbl' = InitialLabel
    /\ lastOp' = "_build_ui"
    /\ branch' = "none"
    /\ window' = SetupWindow(config)
    /\ UNCHANGED <<now, configFile, stateFile, config, state, timerArmed, err, call>>

\* the mutant never reaches root.after
TickBodyNotRearmed(st, cfg, t, file, lbl) ==
    LET r == CheckWeeklyReset(st, cfg, t, file)
        drawn == RenderBar(r.st, lbl)
    IN  [err |-> IF r.err # "none" THEN r.err ELSE drawn.err, st |-> r.st, file |-> r.file,
         branch |-> r.branch, lbl |-> IF r.err # "none" THEN lbl ELSE drawn.lbl,
         armed |-> FALSE]

\* the body of _tick: the reset check, the render, and the re-arming that is
\* reached only when neither raised
TickBody(st, cfg, t, file, lbl) ==
    LET r == CheckWeeklyReset(st, cfg, t, file)
        drawn == RenderBar(r.st, lbl)
    IN  IF r.err # "none"
        THEN [err |-> r.err, st |-> r.st, file |-> r.file, branch |-> r.branch, lbl |-> lbl,
              armed |-> FALSE]
        ELSE [err |-> drawn.err, st |-> r.st, file |-> r.file, branch |-> r.branch,
              lbl |-> drawn.lbl, armed |-> drawn.err = "none"]

\* run(): the first _tick is called directly, so an exception in it ends the
\* process; then mainloop
Run ==
    /\ pc = "run"
    /\ LET r == TickBody(state, config, now, stateFile, pct_lbl)
       IN  /\ state' = r.st
           /\ stateFile' = r.file
           /\ branch' = r.branch
           /\ IF r.err # "none"
              THEN Crash(r.err, "run")
              ELSE /\ pc' = "mainloop"
                   /\ err' = "none"
                   /\ lastOp' = "run"
                   /\ timerArmed' = r.armed
                   /\ pct_lbl' = r.lbl
                   /\ UNCHANGED window
    /\ UNCHANGED <<now, configFile, config, call>>

----------------------------------------------------------------------------
(* The widget: the events of mainloop.  An exception in a callback is        *)
(* reported by Tk and the loop goes on.                                      *)

\* the timer fires
Tick ==
    /\ pc = "mainloop"
    /\ timerArmed
    /\ LET r == TickBody(state, config, now, stateFile, pct_lbl)
       IN  /\ state' = r.st
           /\ stateFile' = r.file
           /\ branch' = r.branch
           /\ err' = r.err
           /\ timerArmed' = r.armed
           /\ pct_lbl' = r.lbl
    /\ lastOp' = "_tick"
    /\ UNCHANGED <<pc, now, configFile, config, window, call>>

\* what a usage handler leaves behind
Handled(r, op) ==
    /\ state' = r.st
    /\ stateFile' = r.file
    /\ err' = r.err
    /\ pct_lbl' = r.lbl
    /\ lastOp' = op
    /\ branch' = "none"
    /\ UNCHANGED <<pc, now, configFile, config, timerArmed, window, call>>

\* the values typed into the prompt; askinteger accepts 0..100 only
PromptValues == {0, 42, 100}

\* _prompt_set: "Set Usage %..." or a double click on the bar, answered
PromptSet ==
    /\ pc = "mainloop"
    /\ \E val \in PromptValues :
          Handled(SetUsage(state, val, now, pct_lbl), "_prompt_set")

\* _prompt_set, cancelled: askinteger returns None
PromptCancel ==
    /\ pc = "mainloop"
    /\ Handled([err |-> "none", st |-> state, file |-> stateFile, lbl |-> pct_lbl],
               "_prompt_set")

\* the menu's "+5 %", "+10 %", "+25 %"
MenuBump ==
    /\ pc = "mainloop"
    /\ \E delta \in {5, 10, 25} :
          Handled(Adjust(state, delta, now, stateFile, pct_lbl), "_adjust")

\* _on_scroll: <MouseWheel> with event.delta
OnScroll ==
    /\ pc = "mainloop"
    /\ \E event_delta \in {0 - 120, 0, 120} :
          Handled(Adjust(state, IF event_delta > 0 THEN 1 ELSE 0 - 1, now, stateFile, pct_lbl),
                  "_adjust")

\* <Button-4> and <Button-5>
ButtonScroll ==
    /\ pc = "mainloop"
    /\ \E delta \in {1, 0 - 1} :
          Handled(Adjust(state, delta, now, stateFile, pct_lbl), "_adjust")

\* _reset: "Reset to 0 %"
ManualReset ==
    /\ pc = "mainloop"
    /\ Handled(SetUsage(state, 0, now, pct_lbl), "_reset")

\* _exit: save both records, destroy the window
Exit ==
    /\ pc = "mainloop"
    /\ LET saved == SaveState(state, now)
       IN  /\ state' = saved.st
           /\ stateFile' = saved.file
    /\ configFile' = SaveJson(config)
    /\ pc' = "off"
    /\ err' = "none"
    /\ lastOp' = "_exit"
    /\ branch' = "none"
    /\ timerArmed' = FALSE
    /\ pct_lbl' = Null
    /\ window' = Null
    /\ UNCHANGED <<now, config, call>>

\* the process is stopped between two events
Kill ==
    /\ pc = "mainloop"
    /\ pc' = "off"
    /\ err' = "none"
    /\ lastOp' = "kill"
    /\ branch' = "none"
    /\ timerArmed' = FALSE
    /\ pct_lbl' = Null
    /\ window' = Null
    /\ UNCHANGED <<now, configFile, stateFile, config, state, call>>

\* time passes, while no process runs or while mainloop waits for an event
AdvanceClock ==
    /\ pc \in {"off", "mainloop"}
    /\ now' = IF now.tod < MaxTod THEN DT(now.day, now.tod + 1) ELSE DT(now.day + 1, 0)
    /\ now'.day <= MaxDay
    /\ UNCHANGED <<pc, configFile, stateFile, config, state, timerArmed, err, lastOp,
                   branch, pct_lbl, window, call>>

Next ==
    \/ LoadRecords
    \/ EnsureStep
    \/ CheckStep
    \/ SetupUI
    \/ Run
    \/ Tick
    \/ PromptSet
    \/ PromptCancel
    \/ MenuBump
    \/ OnScroll
    \/ ButtonScroll
    \/ ManualReset
    \/ Exit
    \/ Kill
    \/ AdvanceClock

Spec == Init /\ [][Next]_vars

----------------------------------------------------------------------------
(* The widget with the pointer events that do not touch the usage: drag,      *)
(* context menu, hover                                                        *)

\* event.x, event.y of a <Button-1> or <B1-Motion> event: the corner of the
\* widget under the pointer, or a point inside it
Pointer == {[x |-> 0, y |-> 0], [x |-> 3, y |-> 2]}

\* where the window may be dragged to
Reach ==
    {[x |-> SetupWindow(DEFAULT_CONFIG).x + 3 * i, y |-> SetupWindow(DEFAULT_CONFIG).y + 2 * i] :
        i \in (0 - MaxShift)..MaxShift}

\* what a pointer handler leaves behind: no exception, no reset check
Pointed(op) ==
    /\ err' = "none"
    /\ lastOp' = op
    /\ branch' = "none"
    /\ UNCHANGED <<pc, now, stateFile, state, timerArmed, pct_lbl, call>>

\* _drag_start
DragStart ==
    /\ pc = "mainloop"
    /\ \E event \in Pointer :
          window' = [window EXCEPT !.drag = [x |-> event.x, y |-> event.y]]
    /\ Pointed("_drag_start")
    /\ UNCHANGED <<configFile, config>>

\* the mutant also resets the usage when the window is moved
DragMoveResetting ==
    /\ pc = "mainloop"
    /\ \E event \in Pointer :
          LET x == window.x + event.x - window.drag.x
              y == window.y + event.y - window.drag.y
              moved == Put(Put(config, "position_x", JInt(x)), "position_y", JInt(y))
              zeroed == SetUsage(state, 0, now, pct_lbl)
          IN  /\ [x |-> x, y |-> y] \in Reach
              /\ window' = [window EXCEPT !.x = x, !.y = y]
              /\ config' = moved
              /\ configFile' = SaveJson(moved)
              /\ state' = zeroed.st
              /\ stateFile' = zeroed.file
              /\ pct_lbl' = zeroed.lbl
    /\ err' = "none"
    /\ lastOp' = "_drag_move"
    /\ branch' = "none"
    /\ UNCHANGED <<pc, now, timerArmed, call>>

\* _drag_move: the window follows the pointer, and its position is written to
\* the config and to the config file
DragMove ==
    /\ pc = "mainloop"
    /\ \E event \in Pointer :
          LET x == window.x + event.x - window.drag.x
              y == window.y + event.y - window.drag.y
              moved == Put(Put(config, "position_x", JInt(x)), "position_y", JInt(y))
          IN  /\ [x |-> x, y |-> y] \in Reach
              /\ window' = [window EXCEPT !.x = x, !.y = y]
              /\ config' = moved
              /\ configFile' = SaveJson(moved)
    /\ Pointed("_drag_move")

\* _show_ctx: the context menu pops up
ShowCtx ==
    /\ pc = "mainloop"
    /\ Pointed("_show_ctx")
    /\ UNCHANGED <<configFile, config, window>>

\* <Enter>: the window becomes opaque
HoverEnter ==
    /\ pc = "mainloop"
    /\ window' = [window EXCEPT !.alpha = JReal(100)]
    /\ Pointed("<Enter>")
    /\ UNCHANGED <<configFile, config>>

\* <Leave>: the window goes back to the configured opacity
HoverLeave ==
    /\ pc = "mainloop"
    /\ window' = [window EXCEPT !.alpha = config["opacity"]]
    /\ Pointed("<Leave>")
    /\ UNCHANGED <<configFile, config>>

\* the day before the last of the clock, with no files or with a state file
\* of an earlier week
UiInit ==
    /\ pc = "off"
    /\ now = DT(MaxDay - 1, MaxTod)
    /\ configFile = AbsentFile
    /\ stateFile \in {AbsentFile,
                      JsonFile(JObject([usage_percent |-> JInt(50),
                                        week_start |-> JIso(0 - 5, 0, FALSE)]))}
    /\ config = DEFAULT_CONFIG
    /\ state = DEFAULT_STATE
    /\ timerArmed = FALSE
    /\ err = "none"
    /\ lastOp = "none"
    /\ branch = "none"
    /\ pct_lbl = Null
    /\ window = Null
    /\ call = NoCall

UiNext ==
    \/ Next
    \/ DragStart
    \/ DragMove
    \/ ShowCtx
    \/ HoverEnter
    \/ HoverLeave

UiSpec == UiInit /\ [][UiNext]_vars

----------------------------------------------------------------------------
(* The widget with its timer: Tk's mainloop runs a callback registered with  *)
(* root.after once its delay has passed, so a tick that stays armed is taken *)

\* ENABLED <<Tick>>_vars as a state predicate: the timer is armed in mainloop
\* and the tick would change something
TickEnabled ==
    /\ pc = "mainloop"
    /\ timerArmed
    /\ LET r == TickBody(state, config, now, stateFile, pct_lbl)
       IN  <<r.st, r.file, r.branch, r.err, r.armed, r.lbl, "_tick">>
               # <<state, stateFile, branch, err, timerArmed, pct_lbl, lastOp>>

\* weak fairness of the timer, WF_vars(Tick) with ENABLED written out
TimerFairness == []<>(~TickEnabled) \/ []<><<Tick>>_vars

LiveSpec == Init /\ [][Next]_vars /\ TimerFairness

----------------------------------------------------------------------------
(* The widget under a system clock that can also be set back *)

\* datetime.now() returns an earlier time than it did: the user or a time
\* service has set the system clock back, here by one instant (a larger
\* change is several of these with nothing in between)
SetClockBack ==
    /\ pc \in {"off", "mainloop"}
    /\ now' = IF now.tod > 0 THEN DT(now.day, now.tod - 1) ELSE DT(now.day - 1, MaxTod)
    /\ now'.day >= 0
    /\ UNCHANGED <<pc, configFile, stateFile, config, state, timerArmed, err, lastOp,
                   branch, pct_lbl, window, call>>

ClockNext ==
    \/ Next
    \/ SetClockBack

\* the launches with no config file, that is with the default reset_day
ClockInit == Init /\ configFile = AbsentFile

ClockSpec == ClockInit /\ [][ClockNext]_vars

----------------------------------------------------------------------------
(* The functions on their own: each step applies one of them to inputs drawn *)
(* from bounded sets and records the application in call.                    *)

FnKeys == {"usage_percent", "week_start", "reset_day", "position_x", "extra"}
FnValues == {JInt(7), JStr("Sunday")}

\* every dict over a subset of FnKeys
FnObjects ==
    UNION {[ks -> FnValues] : ks \in SUBSET FnKeys}

FnFiles ==
    {AbsentFile, UnreadableFile, MalformedFile,
     JsonFile(Null), JsonFile(JInt(7)), JsonFile(JStr("abc")), JsonFile(JList)}
    \cup {JsonFile(JObject(m)) : m \in FnObjects}

FnTimes == {DT(d, s) : d \in 0..MaxFnDay, s \in 0..MaxTod}

FnResetDays ==
    {JStr(DAYS[i]) : i \in 1..Len(DAYS)} \cup {JStr("Funday"), JStr("monday"), JInt(1), Null}

FnUsages ==
    {JInt(n) : n \in {0 - 5, 0, 1, 37, 99, 100, 150}} \cup {JStr("abc"), Null}

\* an application that has not been made yet
Pending == [t |-> "pending"]

FnCalls ==
    {[fn |-> "_load_json", file |-> file, defaults |-> defaults, out |-> Pending] :
        file \in FnFiles, defaults \in {DEFAULT_CONFIG, DEFAULT_STATE}}
    \cup {[fn |-> "_current_week_start", reset_day |-> reset_day, at |-> t, out |-> Pending] :
        reset_day \in FnResetDays, t \in FnTimes}
    \cup {[fn |-> "_set_usage", u |-> u, pct |-> pct, at |-> t, out |-> Pending] :
        u \in FnUsages, pct \in (0 - PctBelow)..PctAbove, t \in Times}
    \cup {[fn |-> "_adjust", u |-> u, delta |-> delta, at |-> t, out |-> Pending] :
        u \in FnUsages, delta \in (0 - MaxDelta)..MaxDelta, t \in Times}
    \cup {[fn |-> "lerp_color", pct |-> pct, out |-> Pending] :
        pct \in (0 - PctBelow)..PctAbove}

FnInit ==
    /\ pc = "off"
    /\ now = DT(0, 0)
    /\ configFile = AbsentFile
    /\ stateFile = AbsentFile
    /\ config = DEFAULT_CONFIG
    /\ state = DEFAULT_STATE
    /\ timerArmed = FALSE
    /\ err = "none"
    /\ lastOp = "none"
    /\ branch = "none"
    /\ pct_lbl = Null
    /\ window = Null
    /\ call \in FnCalls

Returned(out) ==
    /\ call.out = Pending
    /\ call' = [call EXCEPT !.out = out]
    /\ UNCHANGED <<pc, now, configFile, stateFile, config, state, timerArmed, err, lastOp,
                   branch, pct_lbl, window>>

CallLoadJson ==
    /\ call.fn = "_load_json"
    /\ Returned(LoadJson(call.file, call.defaults))

CallCurrentWeekStart ==
    /\ call.fn = "_current_week_start"
    /\ Returned(CurrentWeekStart(Put(DEFAULT_CONFIG, "reset_day", call.reset_day), call.at))

CallSetUsage ==
    /\ call.fn = "_set_usage"
    /\ Returned(SetUsage(Put(DEFAULT_STATE, "usage_percent", call.u), call.pct, call.at,
                         InitialLabel))

CallAdjust ==
    /\ call.fn = "_adjust"
    /\ Returned(Adjust(Put(DEFAULT_STATE, "usage_percent", call.u), call.delta, call.at,
                       AbsentFile, InitialLabel))

CallLerpColor ==
    /\ call.fn = "lerp_color"
    /\ Returned(lerp_color(call.pct))

FnNext ==
    \/ CallLoadJson
    \/ CallCurrentWeekStart
    \/ CallSetUsage
    \/ CallAdjust
    \/ CallLerpColor

FnSpec == FnInit /\ [][FnNext]_vars

----------------------------------------------------------------------------
(* Usage percentage: range and clamping *)

\* C1: in every state of the running widget, whatever state file it was
\* started from, usage_percent is an integer in 0..100.
C1_UsageInRange ==
    pc = "mainloop" =>
        /\ state["usage_percent"].t = "int"
        /\ state["usage_percent"].v \in 0..100

Clamp(p) == IF p < 0 THEN 0 ELSE IF p > 100 THEN 100 ELSE p

Applied(fn) == call.fn = fn /\ call.out # Pending

\* C2: set_usage(pct) leaves usage_percent = clamp(pct, 0, 100) for every pct
\* in -50..150, and adjust(delta) leaves clamp(u + delta, 0, 100) for every
\* number u held before it.
C2_SetAndAdjustClamp ==
    /\ Applied("_set_usage") =>
          /\ call.out.st["usage_percent"] = JInt(Clamp(call.pct))
          /\ call.out.st["usage_percent"].v \in 0..100
    /\ (Applied("_adjust") /\ IsNumber(call.u)) =>
          call.out.st["usage_percent"] = JInt(Clamp(call.u.v + call.delta))

\* set_usage(-50) has left 0
C2_Witness ==
    /\ Applied("_set_usage")
    /\ call.pct = 0 - 50
    /\ call.out.st["usage_percent"] = JInt(0)

----------------------------------------------------------------------------
(* The weekly reset policy *)

\* the steps that call _check_weekly_reset: __init__, run's first _tick, _tick
CheckOps == {"_check_weekly_reset", "run", "_tick"}

\* this step is one of them (the clock stands still while a handler runs)
CheckTaken == lastOp' \in CheckOps /\ now' = now /\ pc \in {"init_check", "run", "mainloop"}

ValidResetDay == InDays(config["reset_day"])

CurrentWs == CurrentWeekStart(config, now).dt

Stored == Get(state, "week_start")

\* the stored week-start parses as a naive timestamp
StoredParses == FromIsoFormat(Stored).err = "none" /\ ~FromIsoFormat(Stored).aware

\* the file holds a JSON object with these two values
Persisted(file, usage, week_start) ==
    /\ file.kind = "json"
    /\ file.doc.t = "object"
    /\ Get(file.doc.m, "usage_percent") = usage
    /\ Get(file.doc.m, "week_start") = week_start

\* a second call at a later time of the same week leaves what the first left
SecondCallChangesNothing ==
    LET first == CheckWeeklyReset(state, config, now, stateFile)
    IN  \A t \in Times :
            (/\ ValidResetDay
             /\ ~Later(now, t)
             /\ CurrentWeekStart(config, t).dt = CurrentWs)
            => LET second == CheckWeeklyReset(first.st, config, t, first.file)
               IN  second.st = first.st /\ second.file = first.file

\* C3: check_weekly_reset is idempotent within a week: a call made when the
\* stored week-start equals the current week start changes neither the record
\* (usage_percent, week_start, last_updated) nor the state file; and from any
\* state, a second call before the next boundary leaves what the first left.
C3_IdempotentWithinWeek ==
    /\ [][(CheckTaken /\ ValidResetDay /\ Stored = IsoFormat(CurrentWs))
            => (state' = state /\ stateFile' = stateFile)]_vars
    /\ []SecondCallChangesNothing

\* a tick of a week already started has left the usage typed earlier
C3_Witness ==
    /\ lastOp = "_tick"
    /\ branch = "kept"
    /\ Stored = IsoFormat(CurrentWs)
    /\ state["usage_percent"] = JInt(42)
    /\ state["last_updated"] = IsoFormat(DT(0, 0))
    /\ now = DT(0, 1)

C5_CorruptWeekStartRepaired ==
    [][(CheckTaken /\ ValidResetDay /\ Truthy(Stored) /\ FromIsoFormat(Stored).err # "none")
        => /\ err' = "none"
           /\ state'["week_start"] = IsoFormat(CurrentWs)
           /\ Persisted(stateFile', state["usage_percent"], IsoFormat(CurrentWs))
           /\ state'["usage_percent"] = state["usage_percent"]]_vars

\* C6: when no week-start is stored (null, missing or empty) the reset policy
\* initializes it to the current week start and leaves usage_percent
\* unchanged, so that week_start is non-null after every call of
\* check_weekly_reset.
C6_MissingWeekStartInitialized ==
    /\ [][(pc = "init_ensure" /\ pc' # "init_ensure" /\ ValidResetDay /\ ~Truthy(Stored))
            => /\ state'["week_start"] = IsoFormat(CurrentWs)
               /\ state'["usage_percent"] = state["usage_percent"]
               /\ Persisted(stateFile', state["usage_percent"], IsoFormat(CurrentWs))]_vars
    /\ []((lastOp \in CheckOps /\ branch # "raised")
            => (Stored # Null /\ Truthy(Stored)))

\* the first launch found no state file, and its check kept the week-start
\* that was initialized for it
C6_Witness ==
    /\ lastOp = "_check_weekly_reset"
    /\ branch = "kept"
    /\ stateFile = SaveJson(state)
    /\ state["usage_percent"] = JInt(0)
    /\ state["week_start"] = IsoFormat(DT(0 - 5, 0))
    /\ state["last_updated"] = IsoFormat(DT(0, 0))
    /\ now = DT(0, 0)

----------------------------------------------------------------------------
(* Persistence *)

\* this step is the load of a launch that follows a stop between two events
Restarted == pc = "off" /\ lastOp \in {"kill", "_exit"} /\ lastOp' = "_load_json"

\* C7: a process stopped between two events and started again within the
\* same week comes up with the usage_percent and week_start its record held
\* before: the load returns them, and the rest of the start-up keeps them.
C7_RestartRoundTrip ==
    /\ [][Restarted
            => /\ err' = "none"
               /\ state'["usage_percent"] = state["usage_percent"]
               /\ state'["week_start"] = state["week_start"]]_vars
    /\ [][(/\ pc \in {"init_ensure", "init_check", "init_ui", "run"}
           /\ StoredParses
           /\ ValidResetDay => ~Later(CurrentWs, FromIsoFormat(Stored).dt))
            => /\ state'["usage_percent"] = state["usage_percent"]
               /\ state'["week_start"] = state["week_start"]]_vars

\* a second launch is back in mainloop with the 42 typed in the first one
C7_Witness ==
    /\ pc = "mainloop"
    /\ lastOp = "run"
    /\ state["usage_percent"] = JInt(42)
    /\ state["last_updated"] = IsoFormat(DT(0, 0))
    /\ now = DT(1, 1)

\* the content for which a load must fall back to the defaults
BadContent(file) ==
    \/ file.kind \in {"absent", "unreadable", "malformed"}
    \/ file.kind = "json" /\ file.doc.t # "object"

\* C8: a load never fails on bad content: a file that is absent, unreadable,
\* not JSON, or JSON that is no object, raises nothing and gives the defaults.
C8_LoadNeverFails ==
    lastOp = "_load_json" =>
        /\ BadContent(configFile) => (err = "none" /\ config = DEFAULT_CONFIG)
        /\ BadContent(stateFile) => (err = "none" /\ state = DEFAULT_STATE)

\* C9: loading a JSON object merges it over the defaults: every key holds the
\* file's value when the file has the key and the default otherwise.
C9_LoadMergesOverDefaults ==
    (Applied("_load_json") /\ call.file.kind = "json" /\ call.file.doc.t = "object")
    => /\ call.out.err = "none"
       /\ \A k \in FnKeys \cup DOMAIN call.defaults :
             Get(call.out.rec, k)
               = IF k \in DOMAIN call.file.doc.m THEN call.file.doc.m[k]
                 ELSE Get(call.defaults, k)
       /\ DOMAIN call.out.rec = DOMAIN call.defaults \cup DOMAIN call.file.doc.m

\* a config file with reset_day and a key of its own, and no other key
C9_Witness ==
    /\ Applied("_load_json")
    /\ call.defaults = DEFAULT_CONFIG
    /\ call.file = JsonFile(JObject([reset_day |-> JStr("Sunday"), extra |-> JInt(7)]))
    /\ call.out.rec["reset_day"] = JStr("Sunday")
    /\ call.out.rec["extra"] = JInt(7)
    /\ call.out.rec["width"] = JInt(230)
    /\ call.out.rec["position_x"] = Null

----------------------------------------------------------------------------
(* current_week_start *)

\* C10: for each of the seven reset days and every time now,
\* current_week_start returns a midnight ws on the reset weekday with
\* ws <= now < ws + 7 days: the date of now minus
\* (weekday(now) - index(reset_day)) mod 7 days.
C10_CurrentWeekStart ==
    (Applied("_current_week_start") /\ InDays(call.reset_day))
    => /\ call.out.err = "none"
       /\ call.out.dt.tod = 0
       /\ Weekday(call.out.dt) = DaysIndex(call.reset_day)
       /\ ~Later(call.out.dt, call.at)
       /\ call.at.day - call.out.dt.day \in 0..6
       /\ call.out.dt.day
            = call.at.day - ((Weekday(call.at) - DaysIndex(call.reset_day)) % 7)

\* on the Monday of day 2, after midnight, the week of a Sunday reset began
\* the day before
C10_Witness ==
    /\ Applied("_current_week_start")
    /\ call.reset_day = JStr("Sunday")
    /\ call.at = DT(2, 1)
    /\ call.out.dt = DT(1, 0)

----------------------------------------------------------------------------
(* The color gradient *)

\* C13: lerp_color gives (40,200,80) at 0 and (255,20,60) at 100, two different
\* colors; at 50 it gives what the formula of the branch pct < 50 gives at 50
\* and at 80 what the formula of the branch pct < 80 gives at 80; every channel
\* of every result is in 0..255; a pct below 0 gives the color of 0 and a pct
\* above 100 the color of 100.
C13_GradientEndsJoinsAndRange ==
    /\ lerp_color(0) = <<40, 200, 80>>
    /\ lerp_color(100) = <<255, 20, 60>>
    /\ lerp_color(0) # lerp_color(100)
    /\ Applied("lerp_color") =>
          /\ \A i \in 1..3 : call.out[i] \in 0..255
          /\ call.pct = 50 => call.out = SegmentGreenYellow(50)
          /\ call.pct = 80 => call.out = SegmentYellowOrange(80)
          /\ call.pct < 0 => call.out = lerp_color(0)
          /\ call.pct > 100 => call.out = lerp_color(100)

\* lerp_color(-50) has given the color of 0
C13_Witness ==
    /\ Applied("lerp_color")
    /\ call.pct = 0 - 50
    /\ call.out = <<40, 200, 80>>

----------------------------------------------------------------------------
(* A reset_day that is not a day name *)

\* the two steps of __init__ that compute the current week start
StartupOps == {"_ensure_week_start", "_check_weekly_reset"}

\* C14: with a reset_day that is not one of the seven names of DAYS loaded
\* from the config file, __init__ never gets past its two week-start steps:
\* _ensure_week_start either raises ValueError or finds a week_start and
\* leaves the record alone, _check_weekly_reset raises ValueError, and each of
\* them leaves the state record in memory and the state file as they were.
C14_BadResetDayFailsStartup ==
    /\ [](~ValidResetDay => pc \in {"off", "init_ensure", "init_check"})
    /\ [][(pc \in {"init_ensure", "init_check"} /\ ~ValidResetDay /\ lastOp' \in StartupOps)
            => /\ state' = state
               /\ stateFile' = stateFile
               /\ pc' = "off" => err' = "ValueError"
               /\ pc = "init_check" => pc' = "off"
               /\ (pc = "init_ensure" /\ ~Truthy(Stored)) => pc' = "off"]_vars

\* startup has failed on "Funday" with a week-start of an earlier week stored,
\* and usage 50 is still in memory and in the file
C14_Witness ==
    /\ pc = "off"
    /\ err = "ValueError"
    /\ lastOp = "_check_weekly_reset"
    /\ config["reset_day"] = JStr("Funday")
    /\ Stored = IsoFormat(DT(0 - 12, 0))
    /\ state["usage_percent"] = JInt(50)
    /\ Persisted(stateFile, JInt(50), IsoFormat(DT(0 - 12, 0)))

----------------------------------------------------------------------------
(* Usage written after a reset boundary *)

\* the handlers that end in _set_usage
UserWriteOps == {"_prompt_set", "_adjust", "_reset"}

LastUpdated == FromIsoFormat(Get(state, "last_updated"))

\* the last thing the program did was a usage handler, and the record was
\* last stamped on or after the boundary that opened the current week
WrittenThisWeek ==
    /\ lastOp \in UserWriteOps
    /\ err = "none"
    /\ LastUpdated.err = "none"
    /\ ~Later(CurrentWs, LastUpdated.dt)

\* C16, as claimed: a value written by set_usage or adjust after the boundary
\* of the current week is not overwritten by any check_weekly_reset of that
\* week, the first one after the boundary included.
C16_WriteAfterBoundaryKept ==
    [][(CheckTaken /\ ValidResetDay /\ WrittenThisWeek)
        => state'["usage_percent"] = state["usage_percent"]]_vars

\* C16, amended: a value written after the boundary is kept by every
\* check_weekly_reset that finds the stored week-start already moved to the
\* current week, that is by every check but the first one after the boundary;
\* the first one after the boundary sets it to 0.
C16_WriteAfterFirstCheckKept ==
    /\ [][(CheckTaken /\ ValidResetDay /\ WrittenThisWeek /\ StoredParses
              /\ ~Later(CurrentWs, FromIsoFormat(Stored).dt))
            => /\ state'["usage_percent"] = state["usage_percent"]
               /\ branch' = "kept"]_vars
    /\ [][(CheckTaken /\ ValidResetDay /\ WrittenThisWeek /\ StoredParses
              /\ Later(CurrentWs, FromIsoFormat(Stored).dt))
            => /\ state'["usage_percent"] = JInt(0)
               /\ branch' = "reset"]_vars

\* 42 was typed on day 2 after the tick that opened the week of day 2, and the
\* next tick has kept it
C16_Witness ==
    /\ lastOp = "_tick"
    /\ branch = "kept"
    /\ config["reset_day"] = JStr("Monday")
    /\ now = DT(2, 1)
    /\ Stored = IsoFormat(DT(2, 0))
    /\ state["usage_percent"] = JInt(42)
    /\ state["last_updated"] = IsoFormat(DT(2, 1))

----------------------------------------------------------------------------
(* The stored week-start under clock changes *)

\* C17: whatever the clock does, a stored week-start that parses is only ever
\* replaced by one that parses and is strictly later; and a check_weekly_reset
\* that finds the current week start earlier than or equal to the stored one
\* changes neither usage_percent nor week_start.
C17_WeekStartNeverMovesBack ==
    /\ [][(StoredParses /\ Stored' # Stored)
            => /\ StoredParses'
               /\ Later(FromIsoFormat(Stored').dt, FromIsoFormat(Stored).dt)]_vars
    /\ [][(CheckTaken /\ ValidResetDay /\ StoredParses
              /\ ~Later(CurrentWs, FromIsoFormat(Stored).dt))
            => /\ state'["usage_percent"] = state["usage_percent"]
               /\ Stored' = Stored]_vars

\* the clock was set back from day 2 to day 0 after the week of day 2 was
\* opened, and a tick has kept the 42 typed on day 2 and the week-start of day 2
C17_Witness ==
    /\ lastOp = "_tick"
    /\ branch = "kept"
    /\ now = DT(0, 1)
    /\ Stored = IsoFormat(DT(2, 0))
    /\ state["usage_percent"] = JInt(42)
    /\ state["last_updated"] = IsoFormat(DT(2, 1))

----------------------------------------------------------------------------
(* One reset per week *)

\* the configurations that the config files of Init load to
LoadedConfigs == {LoadJson(file, DEFAULT_CONFIG).rec : file \in InitConfigFiles}

\* the weeks that the clock of the model is in under one of them
Weeks ==
    {CurrentWeekStart(cfg, t).dt :
        cfg \in {c \in LoadedConfigs : InDays(c["reset_day"])}, t \in Times}

\* the reset policy has just set usage_percent to 0 for the week that starts at w
JustZeroedFor(w) ==
    /\ lastOp \in CheckOps
    /\ branch = "reset"
    /\ ValidResetDay
    /\ CurrentWs = w

\* a check_weekly_reset made now would set usage_percent to 0
WouldZero ==
    /\ ValidResetDay
    /\ CheckWeeklyReset(state, config, now, stateFile).branch = "reset"

\* C12: once the reset policy has set usage_percent to 0 in the week that
\* starts at w, no later state of that week, after any ticks, user writes and
\* restarts, is one in which check_weekly_reset would set it to 0 again: the
\* policy zeroes at most once between two consecutive boundaries.
C12_OneResetPerWeek ==
    \A w \in Weeks :
        [](JustZeroedFor(w) => []((ValidResetDay /\ CurrentWs = w) => ~WouldZero))

\* the tick of day 2 that opened the week was followed by a write of 42 and by
\* a restart later that day, whose check has kept the 42
C12_Witness ==
    /\ pc = "init_ui"
    /\ lastOp = "_check_weekly_reset"
    /\ branch = "kept"
    /\ config["reset_day"] = JStr("Monday")
    /\ now = DT(2, 1)
    /\ Stored = IsoFormat(DT(2, 0))
    /\ state["usage_percent"] = JInt(42)
    /\ state["last_updated"] = IsoFormat(DT(2, 0))

----------------------------------------------------------------------------
(* The timer serves a reset that is due *)

\* the widget is in mainloop and the current week start is strictly later
\* than a stored week-start that parses
ResetDue ==
    /\ pc = "mainloop"
    /\ ValidResetDay
    /\ StoredParses
    /\ Later(CurrentWs, FromIsoFormat(Stored).dt)

\* the reset policy has set usage_percent to 0 and week_start to the current
\* week start
ResetDone ==
    /\ lastOp \in CheckOps
    /\ branch = "reset"
    /\ state["usage_percent"] = JInt(0)
    /\ Stored = IsoFormat(CurrentWs)

\* C15: in mainloop the timer is always armed, and, the timer being fair,
\* whenever a reset is due while the widget runs, eventually the reset policy
\* has set usage_percent to 0 and week_start to the current week start, unless
\* the widget has stopped running before.
C15_DueResetIsServed ==
    /\ [](pc = "mainloop" => timerArmed)
    /\ ResetDue ~> (ResetDone \/ pc # "mainloop")

\* the week of day 1 began while the widget ran, the tick came an instant
\* later and has reset the usage, and the timer is armed again
C15_Witness ==
    /\ pc = "mainloop"
    /\ timerArmed
    /\ lastOp = "_tick"
    /\ branch = "reset"
    /\ config["reset_day"] = JStr("Sunday")
    /\ now = DT(1, 1)
    /\ Stored = IsoFormat(DT(1, 0))
    /\ state["usage_percent"] = JInt(0)

----------------------------------------------------------------------------
(* What writes the usage *)

Usage == state["usage_percent"]

\* the handlers that never reach _set_usage
PointerOps == {"_drag_start", "_drag_move", "_show_ctx", "<Enter>", "<Leave>"}

\* C11: while the process runs, usage_percent changes only in a step of a
\* handler that ends in _set_usage (the prompt, adjust by menu, wheel or
\* button, the manual reset) or in a check_weekly_reset that takes the reset
\* branch; drag start, drag move with its config save, the context menu,
\* hover enter and leave, _exit, and a tick that does not take the reset
\* branch, leave it as it was.  Rendering the bar is part of the tick and of
\* the usage handlers.
C11_OnlySetUsageAndResetWrite ==
    /\ [][(pc # "off" /\ Usage' # Usage)
            => \/ lastOp' \in UserWriteOps
               \/ lastOp' \in CheckOps /\ branch' = "reset"]_vars
    /\ [][(pc = "mainloop" /\ lastOp' \in PointerOps \cup {"_exit"}) => Usage' = Usage]_vars
    /\ [][(pc = "mainloop" /\ lastOp' = "_tick" /\ branch' # "reset") => Usage' = Usage]_vars

\* the window was dragged by one pointer offset with usage at 42: the position
\* is in the config and in the config file, and the usage is still 42
C11_Witness ==
    /\ lastOp = "_drag_move"
    /\ Usage = JInt(42)
    /\ window.x = SetupWindow(DEFAULT_CONFIG).x + 3
    /\ config["position_x"] = JInt(window.x)
    /\ configFile = SaveJson(config)
    /\ Persisted(stateFile, JInt(42), Stored)

====
